---- MODULE Spec2Model ----
(***************************************************************************)
(* The multi-provider LLM rotation system of src/core/llm_provider.py:     *)
(* APIKey quota tracking, Provider key selection, the vendor adapters'     *)
(* outcome classification, LLMProviderRotator.generate and the state       *)
(* persistence.                                                            *)
(*                                                                         *)
(* Time is counted in hours.  Quota is counted in characters, as in the    *)
(* code, with the vendors' daily limits scaled down to a few characters.   *)
(* Cursors are 0-based as in the code; TLA+ sequences are 1-based, so the  *)
(* key at cursor i is api_keys[i + 1].                                     *)
(*                                                                         *)
(* asyncio runs one coroutine at a time and switches only at an await.     *)
(* The variable running names the caller that is between two awaits; the   *)
(* steps of generate between two awaits are separate actions, visible one  *)
(* by one, and no other action is enabled while running names a caller.    *)
(***************************************************************************)
EXTENDS Integers, Sequences, FiniteSets, TLC

\* ------------------------------------------------------------------ bounds
MaxKeys == 2          \* keys per provider in a configuration
MaxRetries == 2       \* largest max_retries a caller passes
MaxRequests == 2      \* generate calls in one run (caps total_requests)
MaxPromptLen == 1     \* len(prompt) ranges over 0..MaxPromptLen
MaxTextLen == 1       \* len(text) ranges over 0..MaxTextLen
MaxErrors == 1        \* caps error_count
MaxTime == 24         \* the clock stops here
GeminiLimit == 2      \* daily_limit of a gemini key, scaled
GroqLimit == 1        \* daily_limit of a groq key, scaled
MaxSmallKeys == 2     \* keys of a configuration in the larger specifications

\* ------------------------------------------------------- program constants
ResetHours == 24

\* One step of the model's clock.
TickHours == ResetHours \div 2

ACTIVE == "ACTIVE"
RATE_LIMITED == "RATE_LIMITED"
ERROR == "ERROR"
DISABLED == "DISABLED"
ProviderStatus == {ACTIVE, RATE_LIMITED, ERROR, DISABLED}

\* The vendors of the model, in the order __init__ appends them.
ProviderNames == <<"gemini", "groq">>
NameSet == {ProviderNames[i] : i \in 1..Len(ProviderNames)}

Callers == {"c1", "c2"}
NoCaller == "none"

Max(a, b) == IF a >= b THEN a ELSE b

\* ------------------------------------------------------------------ APIKey

DailyLimit(name) == IF name = "gemini" THEN GeminiLimit ELSE GroqLimit

NewKey(name, t) ==
    [provider |-> name, daily_limit |-> DailyLimit(name), used_today |-> 0,
     last_reset |-> t, status |-> ACTIVE, error_count |-> 0]

\* ResetIfNeeded resetting only after more than 24 hours.
ResetIfNeededStrict(key, t) ==
    IF t - key.last_reset > ResetHours
    THEN [key |-> [key EXCEPT !.used_today = 0, !.last_reset = t, !.status = ACTIVE],
          value |-> TRUE]
    ELSE [key |-> key, value |-> FALSE]

\* reset_if_needed at time t: the key afterwards and the value returned.
ResetIfNeeded(key, t) ==
    IF t - key.last_reset >= ResetHours
    THEN [key |-> [key EXCEPT !.used_today = 0, !.last_reset = t, !.status = ACTIVE],
          value |-> TRUE]
    ELSE [key |-> key, value |-> FALSE]

\* The property remaining: the key afterwards and the value.
Remaining(key, t) ==
    LET k == ResetIfNeeded(key, t).key
    IN [key |-> k, value |-> Max(0, k.daily_limit - k.used_today)]

\* IsAvailable without the test of the status.
IsAvailableAnyStatus(key, t) ==
    LET r == Remaining(ResetIfNeeded(key, t).key, t)
    IN [key |-> r.key, value |-> r.value > 0]

\* IsAvailable without the test of the remaining quota.
IsAvailableAnyUsage(key, t) ==
    LET k == ResetIfNeeded(key, t).key
    IN [key |-> k, value |-> k.status = ACTIVE]

\* IsAvailable refusing a key that has failed.
IsAvailableFewErrors(key, t) ==
    LET k == ResetIfNeeded(key, t).key
    IN IF k.status = ACTIVE /\ k.error_count = 0
       THEN LET r == Remaining(k, t) IN [key |-> r.key, value |-> r.value > 0]
       ELSE [key |-> k, value |-> FALSE]

\* The property is_available: `and` reads remaining only for an ACTIVE key.
IsAvailable(key, t) ==
    LET k == ResetIfNeeded(key, t).key
    IN IF k.status = ACTIVE
       THEN LET r == Remaining(k, t) IN [key |-> r.key, value |-> r.value > 0]
       ELSE [key |-> k, value |-> FALSE]

\* ---------------------------------------------------------------- Provider

NewProvider(name, n, t) ==
    [name |-> name, current_key_index |-> 0,
     api_keys |-> [i \in 1..n |-> NewKey(name, t)]]

\* ScanKeys advancing the cursor only past the keys it skips.
RECURSIVE ScanKeysStay(_, _, _, _)
ScanKeysStay(prov, t, n, visited) ==
    IF n = 0
    THEN [provider |-> prov, key |-> 0, visited |-> visited]
    ELSE IF prov.current_key_index >= Len(prov.api_keys)
    THEN [provider |-> prov, key |-> -1, visited |-> visited]
    ELSE LET pos == prov.current_key_index + 1
             a == IsAvailable(prov.api_keys[pos], t)
             p0 == [prov EXCEPT !.api_keys[pos] = a.key]
             p1 == [p0 EXCEPT !.current_key_index =
                                  (prov.current_key_index + 1) % Len(prov.api_keys)]
         IN IF a.value
            THEN [provider |-> p0, key |-> pos, visited |-> Append(visited, pos)]
            ELSE ScanKeysStay(p1, t, n - 1, Append(visited, pos))

\* ScanKeys advancing the cursor without wrapping it around.
RECURSIVE ScanKeysNoWrap(_, _, _, _)
ScanKeysNoWrap(prov, t, n, visited) ==
    IF n = 0
    THEN [provider |-> prov, key |-> 0, visited |-> visited]
    ELSE IF prov.current_key_index >= Len(prov.api_keys)
    THEN [provider |-> prov, key |-> -1, visited |-> visited]
    ELSE LET pos == prov.current_key_index + 1
             a == IsAvailable(prov.api_keys[pos], t)
             p0 == [prov EXCEPT !.api_keys[pos] = a.key]
             p1 == [p0 EXCEPT !.current_key_index = prov.current_key_index + 1]
         IN IF a.value
            THEN [provider |-> p1, key |-> pos, visited |-> Append(visited, pos)]
            ELSE ScanKeysNoWrap(p1, t, n - 1, Append(visited, pos))

\* ScanKeys putting the cursor back on the first key when no key is available.
RECURSIVE ScanKeysRewind(_, _, _, _)
ScanKeysRewind(prov, t, n, visited) ==
    IF n = 0
    THEN [provider |-> [prov EXCEPT !.current_key_index = 0], key |-> 0,
          visited |-> visited]
    ELSE IF prov.current_key_index >= Len(prov.api_keys)
    THEN [provider |-> prov, key |-> -1, visited |-> visited]
    ELSE LET pos == prov.current_key_index + 1
             a == IsAvailable(prov.api_keys[pos], t)
             p0 == [prov EXCEPT !.api_keys[pos] = a.key]
             p1 == [p0 EXCEPT !.current_key_index =
                                  (prov.current_key_index + 1) % Len(prov.api_keys)]
         IN IF a.value
            THEN [provider |-> p1, key |-> pos, visited |-> Append(visited, pos)]
            ELSE ScanKeysRewind(p1, t, n - 1, Append(visited, pos))

\* The loop of get_next_available_key with n iterations left.  key is the
\* 1-based position of the key returned, 0 for None, -1 for the IndexError of
\* api_keys[current_key_index]; visited lists the positions whose
\* is_available was read, in order.
RECURSIVE ScanKeys(_, _, _, _)
ScanKeys(prov, t, n, visited) ==
    IF n = 0
    THEN [provider |-> prov, key |-> 0, visited |-> visited]
    ELSE IF prov.current_key_index >= Len(prov.api_keys)
    THEN [provider |-> prov, key |-> -1, visited |-> visited]
    ELSE LET pos == prov.current_key_index + 1
             a == IsAvailable(prov.api_keys[pos], t)
             p1 == [prov EXCEPT
                      !.current_key_index =
                          (prov.current_key_index + 1) % Len(prov.api_keys),
                      !.api_keys[pos] = a.key]
         IN IF a.value
            THEN [provider |-> p1, key |-> pos, visited |-> Append(visited, pos)]
            ELSE ScanKeys(p1, t, n - 1, Append(visited, pos))

GetNextAvailableKey(prov, t) == ScanKeys(prov, t, Len(prov.api_keys), <<>>)

\* ------------------------------------------------------ LLMProviderRotator

\* __init__: a provider per vendor whose configuration entry is non-empty
\* (cfg[name] is the number of keys configured, 0 for absent or empty).
Configs == [NameSet -> 0..MaxKeys]

NewProviders(cfg, t) ==
    LET Configured(name) == cfg[name] > 0
        names == SelectSeq(ProviderNames, Configured)
    IN [j \in 1..Len(names) |-> NewProvider(names[j], cfg[names[j]], t)]

NewStats ==
    [total_requests |-> 0, successful_requests |-> 0, failed_requests |-> 0,
     provider_usage |-> [n \in NameSet |-> 0]]

\* ScanProviders leaving the cursor on the provider it returns.
RECURSIVE ScanProvidersSticky(_, _, _, _, _)
ScanProvidersSticky(provs, cpi, t, n, probes) ==
    IF n = 0
    THEN [providers |-> provs, current_provider_index |-> cpi, result |-> 0,
          probes |-> probes]
    ELSE IF cpi >= Len(provs)
    THEN [providers |-> provs, current_provider_index |-> cpi, result |-> -1,
          probes |-> probes]
    ELSE LET pos == cpi + 1
             r == GetNextAvailableKey(provs[pos], t)
             provs1 == [provs EXCEPT ![pos] = r.provider]
             cpi1 == (cpi + 1) % Len(provs)
             probes1 == Append(probes, [provider |-> pos, key |-> r.key,
                                        visited |-> r.visited])
         IN IF r.key > 0
            THEN [providers |-> provs1, current_provider_index |-> cpi,
                  result |-> pos, probes |-> probes1]
            ELSE IF r.key = -1
            THEN [providers |-> provs1, current_provider_index |-> cpi1,
                  result |-> -1, probes |-> probes1]
            ELSE ScanProvidersSticky(provs1, cpi1, t, n - 1, probes1)

\* ScanProviders advancing the provider cursor without wrapping it around.
RECURSIVE ScanProvidersNoWrap(_, _, _, _, _)
ScanProvidersNoWrap(provs, cpi, t, n, probes) ==
    IF n = 0
    THEN [providers |-> provs, current_provider_index |-> cpi, result |-> 0,
          probes |-> probes]
    ELSE IF cpi >= Len(provs)
    THEN [providers |-> provs, current_provider_index |-> cpi, result |-> -1,
          probes |-> probes]
    ELSE LET pos == cpi + 1
             r == GetNextAvailableKey(provs[pos], t)
             provs1 == [provs EXCEPT ![pos] = r.provider]
             cpi1 == cpi + 1
             probes1 == Append(probes, [provider |-> pos, key |-> r.key,
                                        visited |-> r.visited])
         IN IF r.key > 0
            THEN [providers |-> provs1, current_provider_index |-> cpi1,
                  result |-> pos, probes |-> probes1]
            ELSE IF r.key = -1
            THEN [providers |-> provs1, current_provider_index |-> cpi1,
                  result |-> -1, probes |-> probes1]
            ELSE ScanProvidersNoWrap(provs1, cpi1, t, n - 1, probes1)

\* The loop of get_next_provider with n iterations left.  result is the
\* 1-based position of the provider returned, 0 for None, -1 for an
\* IndexError (of providers[current_provider_index] or of a probe); probes
\* lists, per provider visited, what its get_next_available_key did.
RECURSIVE ScanProviders(_, _, _, _, _)
ScanProviders(provs, cpi, t, n, probes) ==
    IF n = 0
    THEN [providers |-> provs, current_provider_index |-> cpi, result |-> 0,
          probes |-> probes]
    ELSE IF cpi >= Len(provs)
    THEN [providers |-> provs, current_provider_index |-> cpi, result |-> -1,
          probes |-> probes]
    ELSE LET pos == cpi + 1
             r == GetNextAvailableKey(provs[pos], t)
             provs1 == [provs EXCEPT ![pos] = r.provider]
             cpi1 == (cpi + 1) % Len(provs)
             probes1 == Append(probes, [provider |-> pos, key |-> r.key,
                                        visited |-> r.visited])
         IN IF r.key > 0
            THEN [providers |-> provs1, current_provider_index |-> cpi1,
                  result |-> pos, probes |-> probes1]
            ELSE IF r.key = -1
            THEN [providers |-> provs1, current_provider_index |-> cpi1,
                  result |-> -1, probes |-> probes1]
            ELSE ScanProviders(provs1, cpi1, t, n - 1, probes1)

\* GetNextProvider returning the provider at the cursor without probing it.
GetNextProviderUnprobed(provs, cpi, t) ==
    IF Len(provs) = 0 \/ cpi >= Len(provs)
    THEN [providers |-> provs, current_provider_index |-> cpi, result |-> 0,
          probes |-> <<>>]
    ELSE [providers |-> provs, current_provider_index |-> (cpi + 1) % Len(provs),
          result |-> cpi + 1, probes |-> <<>>]

\* GetNextProvider reading providers[current_provider_index] before its loop.
GetNextProviderIndexFirst(provs, cpi, t) ==
    IF cpi >= Len(provs)
    THEN [providers |-> provs, current_provider_index |-> cpi, result |-> -1,
          probes |-> <<>>]
    ELSE ScanProviders(provs, cpi, t, Len(provs), <<>>)

GetNextProvider(provs, cpi, t) == ScanProviders(provs, cpi, t, Len(provs), <<>>)

\* ----------------------------------------------------------------- state

VARIABLES
    now,                     \* datetime.now(), in hours
    providers,               \* self.providers
    current_provider_index,  \* self.current_provider_index
    stats,                   \* self.stats
    session,                 \* self.session: "none", "open" or "closed"
    call,                    \* per caller: the frame of its generate call
    running,                 \* the caller between two awaits, or NoCaller
    active,                  \* the callers that share the rotator
    proc,                    \* the process: "new" (rotator constructed, state
                             \* not loaded yet), "up" (serving) or "down"
    file,                    \* the state file: NoFile or the document
    charged,                 \* history: per key, the charges since its reset
    marked,                  \* history: per key, the time of its 429 since its reset
    keyLog,                  \* history: per provider, keys returned in a row
    streak,                  \* history: per provider, the keys served in a row
    saved,                   \* history: the rotator as save_state last saw it
    last                     \* history: what the last step did

vars == <<now, providers, current_provider_index, stats, session, call, running,
          active, proc, file, charged, marked, keyLog, streak, saved, last>>

NoFile == [exists |-> FALSE]
NoResult == [success |-> FALSE, text |-> 0, provider |-> "", error |-> ""]
NoStart == [time |-> 0, cursor |-> 0, avail |-> {}, limited |-> {}]

IdleCall ==
    [pc |-> "idle", prompt |-> 0, max_retries |-> 0, attempt |-> 0,
     provider |-> 0, key |-> 0, result |-> NoResult,
     nSel |-> 0, invoked |-> <<>>, slept |-> 0, start |-> NoStart]

ProvIdx == 1..Len(ProviderNames)
KeyIds == ProvIdx \X (1..MaxKeys)

\* The keys of the rotator, as <<provider position, key position>>.
KeysOf(provs) ==
    {<<p, i>> \in KeyIds : p <= Len(provs) /\ i <= Len(provs[p].api_keys)}

KeyAt(provs, id) == provs[id[1]].api_keys[id[2]]

\* Whether is_available would be true at time t, read without its effect.
AvailableAt(key, t) == IsAvailable(key, t).value

NoLast == [op |-> "init", caller |-> NoCaller, checked |-> <<>>,
           returned |-> <<>>, fired |-> {}, key |-> <<0, 0>>, outcome |-> "",
           charge |-> 0, raised |-> FALSE, wasLimited |-> {}]

ZeroCharged == [id \in KeyIds |-> 0]
NoMarked == [id \in KeyIds |-> -1]
NoKeyLog == [p \in ProvIdx |-> <<>>]
NoStreak == [p \in ProvIdx |-> [n |-> 0, keys |-> {}]]
NoSaved == [exists |-> FALSE]

InitWith(cfg, callers, phase) ==
    /\ now = 0
    /\ proc = phase
    /\ providers = NewProviders(cfg, 0)
    /\ current_provider_index = 0
    /\ stats = NewStats
    /\ session = "none"
    /\ call = [c \in Callers |-> IdleCall]
    /\ running = NoCaller
    /\ active = callers
    /\ file = NoFile
    /\ charged = ZeroCharged
    /\ marked = NoMarked
    /\ keyLog = NoKeyLog
    /\ streak = NoStreak
    /\ saved = NoSaved
    /\ last = NoLast

\* --------------------------------------------------------------- history

AllAvailable(prov, t) ==
    \A i \in 1..Len(prov.api_keys) : AvailableAt(prov.api_keys[i], t)

\* The keys whose reset_if_needed returned True between provs0 and provs1.
Fired(provs0, provs1) ==
    {id \in KeysOf(provs0) : KeyAt(provs1, id).last_reset # KeyAt(provs0, id).last_reset}

\* The keys among ids that are RATE_LIMITED in provs.
Limited(provs, ids) == {id \in ids : KeyAt(provs, id).status = RATE_LIMITED}

Range(s) == {s[j] : j \in 1..Len(s)}

ChargedAfter(ch, fired) == [id \in KeyIds |-> IF id \in fired THEN 0 ELSE ch[id]]

MarkedAfter(mk, fired) == [id \in KeyIds |-> IF id \in fired THEN -1 ELSE mk[id]]

LastN(s, n) == IF Len(s) <= n THEN s ELSE SubSeq(s, Len(s) - n + 1, Len(s))

\* keyLog[p] after a get_next_available_key call r on provider p: the keys
\* returned by the calls made in a row while every key of p was available and
\* no key of p changed (the last len(api_keys) of them).
KeyLogAfter(log, p, r) ==
    IF /\ r.key > 0
       /\ AllAvailable(providers[p], now)
       /\ r.provider.api_keys = providers[p].api_keys
    THEN [log EXCEPT ![p] = LastN(Append(log[p], r.key), Len(providers[p].api_keys))]
    ELSE [log EXCEPT ![p] = <<>>]

RECURSIVE KeyLogAfterProbes(_, _)
KeyLogAfterProbes(log, probes) ==
    IF probes = <<>> THEN log
    ELSE LET q == Head(probes)
             r == GetNextAvailableKey(providers[q.provider], now)
         IN KeyLogAfterProbes(KeyLogAfter(log, q.provider, r), Tail(probes))

\* streak[p] survives a step only while every key of p is still available.
StreakAfter(st, provs) ==
    [p \in ProvIdx |->
        IF p <= Len(provs) /\ AllAvailable(provs[p], now) /\ active = {"c1"}
        THEN st[p] ELSE [n |-> 0, keys |-> {}]]

\* The keys read and the keys returned by the probes of get_next_provider.
RECURSIVE ProbeChecked(_)
ProbeChecked(probes) ==
    IF probes = <<>> THEN <<>>
    ELSE LET q == Head(probes)
         IN [j \in 1..Len(q.visited) |-> <<q.provider, q.visited[j]>>]
            \o ProbeChecked(Tail(probes))

RECURSIVE ProbeReturned(_)
ProbeReturned(probes) ==
    IF probes = <<>> THEN <<>>
    ELSE LET q == Head(probes)
         IN (IF q.key > 0 THEN <<<<q.provider, q.key>>>> ELSE <<>>)
            \o ProbeReturned(Tail(probes))

\* ---------------------------------------------------------------- adapters

Outcomes == {"ok", "429", "http", "exception"}

\* AdapterGenerate charging the prompt of a request answered with 429.
AdapterGenerateChargesFailure(key, name, promptLen, outcome, textLen) ==
    CASE outcome = "ok" ->
           [key |-> [key EXCEPT !.used_today = key.used_today + promptLen + textLen],
            result |-> [success |-> TRUE, text |-> textLen, provider |-> name,
                        error |-> ""]]
      [] outcome = "429" ->
           [key |-> [key EXCEPT !.status = RATE_LIMITED,
                                !.used_today = key.used_today + promptLen + 1],
            result |-> [success |-> FALSE, text |-> 0, provider |-> "",
                        error |-> "rate_limited"]]
      [] outcome = "http" ->
           [key |-> [key EXCEPT !.error_count = key.error_count + 1],
            result |-> [success |-> FALSE, text |-> 0, provider |-> "",
                        error |-> "http_error"]]
      [] OTHER ->
           [key |-> [key EXCEPT !.error_count = key.error_count + 1],
            result |-> [success |-> FALSE, text |-> 0, provider |-> "",
                        error |-> "exception"]]

\* AdapterGenerate counting a 429 as an error of the key.
AdapterGenerate429AsError(key, name, promptLen, outcome, textLen) ==
    CASE outcome = "ok" ->
           [key |-> [key EXCEPT !.used_today = key.used_today + promptLen + textLen],
            result |-> [success |-> TRUE, text |-> textLen, provider |-> name,
                        error |-> ""]]
      [] outcome = "429" ->
           [key |-> [key EXCEPT !.status = RATE_LIMITED,
                                !.error_count = key.error_count + 1],
            result |-> [success |-> FALSE, text |-> 0, provider |-> "",
                        error |-> "rate_limited"]]
      [] outcome = "http" ->
           [key |-> [key EXCEPT !.error_count = key.error_count + 1],
            result |-> [success |-> FALSE, text |-> 0, provider |-> "",
                        error |-> "http_error"]]
      [] OTHER ->
           [key |-> [key EXCEPT !.error_count = key.error_count + 1],
            result |-> [success |-> FALSE, text |-> 0, provider |-> "",
                        error |-> "exception"]]

\* AdapterGenerate charging the prompt of a request that ended in an error.
AdapterGenerateChargesError(key, name, promptLen, outcome, textLen) ==
    CASE outcome = "ok" ->
           [key |-> [key EXCEPT !.used_today = key.used_today + promptLen + textLen],
            result |-> [success |-> TRUE, text |-> textLen, provider |-> name,
                        error |-> ""]]
      [] outcome = "429" ->
           [key |-> [key EXCEPT !.status = RATE_LIMITED],
            result |-> [success |-> FALSE, text |-> 0, provider |-> "",
                        error |-> "rate_limited"]]
      [] outcome = "http" ->
           [key |-> [key EXCEPT !.error_count = key.error_count + 1,
                                !.used_today = key.used_today + promptLen + 1],
            result |-> [success |-> FALSE, text |-> 0, provider |-> "",
                        error |-> "http_error"]]
      [] OTHER ->
           [key |-> [key EXCEPT !.error_count = key.error_count + 1],
            result |-> [success |-> FALSE, text |-> 0, provider |-> "",
                        error |-> "exception"]]

\* AdapterGenerate marking a key that failed with an HTTP error as ERROR.
AdapterGenerateErrorStatus(key, name, promptLen, outcome, textLen) ==
    CASE outcome = "ok" ->
           [key |-> [key EXCEPT !.used_today = key.used_today + promptLen + textLen],
            result |-> [success |-> TRUE, text |-> textLen, provider |-> name,
                        error |-> ""]]
      [] outcome = "429" ->
           [key |-> [key EXCEPT !.status = RATE_LIMITED],
            result |-> [success |-> FALSE, text |-> 0, provider |-> "",
                        error |-> "rate_limited"]]
      [] outcome = "http" ->
           [key |-> [key EXCEPT !.error_count = key.error_count + 1,
                                !.status = ERROR],
            result |-> [success |-> FALSE, text |-> 0, provider |-> "",
                        error |-> "http_error"]]
      [] OTHER ->
           [key |-> [key EXCEPT !.error_count = key.error_count + 1],
            result |-> [success |-> FALSE, text |-> 0, provider |-> "",
                        error |-> "exception"]]

\* Provider.generate of a vendor: the response classified.  "exception"
\* stands for a network error, a timeout and a 200 whose body cannot be read.
AdapterGenerate(key, name, promptLen, outcome, textLen) ==
    CASE outcome = "ok" ->
           [key |-> [key EXCEPT !.used_today = key.used_today + promptLen + textLen],
            result |-> [success |-> TRUE, text |-> textLen, provider |-> name,
                        error |-> ""]]
      [] outcome = "429" ->
           [key |-> [key EXCEPT !.status = RATE_LIMITED],
            result |-> [success |-> FALSE, text |-> 0, provider |-> "",
                        error |-> "rate_limited"]]
      [] outcome = "http" ->
           [key |-> [key EXCEPT !.error_count = key.error_count + 1],
            result |-> [success |-> FALSE, text |-> 0, provider |-> "",
                        error |-> "http_error"]]
      [] OTHER ->
           [key |-> [key EXCEPT !.error_count = key.error_count + 1],
            result |-> [success |-> FALSE, text |-> 0, provider |-> "",
                        error |-> "exception"]]

\* ---------------------------------------------------------------- generate

Exhausted ==
    [success |-> FALSE, text |-> 0, provider |-> "", error |-> "all_providers_exhausted"]

\* GenerateCall without the increment of total_requests.
GenerateCallUncounted(c, promptLen, m) ==
    /\ running = NoCaller
    /\ proc = "up"
    /\ c \in active
    /\ call[c].pc = "idle"
    /\ stats.total_requests < MaxRequests
    /\ session' = IF session = "none" THEN "open" ELSE session
    /\ call' = [call EXCEPT ![c] =
                  [IdleCall EXCEPT
                     !.pc = "loop", !.prompt = promptLen, !.max_retries = m,
                     !.start = [time |-> now, cursor |-> current_provider_index,
                                avail |-> {id \in KeysOf(providers) :
                                             AvailableAt(KeyAt(providers, id), now)},
                                limited |-> {id \in KeysOf(providers) :
                                    /\ KeyAt(providers, id).status = RATE_LIMITED
                                    /\ ~ResetIfNeeded(KeyAt(providers, id), now).value}]]]
    /\ running' = c
    /\ last' = [NoLast EXCEPT !.op = "generate", !.caller = c]
    /\ streak' = StreakAfter(streak, providers)
    /\ UNCHANGED <<now, providers, current_provider_index, stats, active, proc, file,
                   charged, marked, keyLog, saved>>

\* generate up to the loop: total_requests, the lazily opened session.
GenerateCall(c, promptLen, m) ==
    /\ running = NoCaller
    /\ proc = "up"
    /\ c \in active
    /\ call[c].pc = "idle"
    /\ stats.total_requests < MaxRequests
    /\ stats' = [stats EXCEPT !.total_requests = stats.total_requests + 1]
    /\ session' = IF session = "none" THEN "open" ELSE session
    /\ call' = [call EXCEPT ![c] =
                  [IdleCall EXCEPT
                     !.pc = "loop", !.prompt = promptLen, !.max_retries = m,
                     !.start = [time |-> now, cursor |-> current_provider_index,
                                avail |-> {id \in KeysOf(providers) :
                                             AvailableAt(KeyAt(providers, id), now)},
                                limited |-> {id \in KeysOf(providers) :
                                    /\ KeyAt(providers, id).status = RATE_LIMITED
                                    /\ ~ResetIfNeeded(KeyAt(providers, id), now).value}]]]
    /\ running' = c
    /\ last' = [NoLast EXCEPT !.op = "generate", !.caller = c]
    /\ streak' = StreakAfter(streak, providers)
    /\ UNCHANGED <<now, providers, current_provider_index, active, proc, file, charged, marked,
                   keyLog, saved>>

\* RetriesLeft with the loop's bound off by one.
RetriesLeftOffByOne(attempt, max_retries) == attempt <= max_retries

\* for attempt in range(max_retries): whether another iteration starts.
RetriesLeft(attempt, max_retries) == attempt < max_retries

\* The head of one iteration: the loop's end, or get_next_provider.
LoopTop(c) ==
    /\ running = c
    /\ call[c].pc = "loop"
    /\ IF ~RetriesLeft(call[c].attempt, call[c].max_retries)
       THEN /\ stats' = [stats EXCEPT !.failed_requests = stats.failed_requests + 1]
            /\ call' = [call EXCEPT ![c].pc = "done", ![c].result = Exhausted]
            /\ running' = c
            /\ last' = [NoLast EXCEPT !.op = "exhausted", !.caller = c]
            /\ UNCHANGED <<providers, current_provider_index, charged, marked, keyLog, streak>>
       ELSE LET r == GetNextProvider(providers, current_provider_index, now)
                fired == Fired(providers, r.providers)
            IN /\ providers' = r.providers
               /\ current_provider_index' = r.current_provider_index
               /\ call' = [call EXCEPT
                             ![c].pc = CASE r.result = 0 -> "sleeping"
                                         [] r.result = -1 -> "raised"
                                         [] OTHER -> "selected",
                             ![c].provider = Max(r.result, 0),
                             ![c].nSel = call[c].nSel + 1]
               /\ running' = IF r.result = 0 THEN NoCaller ELSE c
               /\ charged' = ChargedAfter(charged, fired)
               /\ marked' = MarkedAfter(marked, fired)
               /\ keyLog' = KeyLogAfterProbes(keyLog, r.probes)
               /\ streak' = StreakAfter(streak, r.providers)
               /\ last' = [NoLast EXCEPT
                             !.op = "get_next_provider", !.caller = c,
                             !.raised = (r.result = -1),
                             !.checked = ProbeChecked(r.probes),
                             !.returned = ProbeReturned(r.probes),
                             !.fired = fired,
                             !.wasLimited = Limited(providers, Range(ProbeChecked(r.probes)))]
               /\ UNCHANGED stats
    /\ UNCHANGED <<now, session, active, proc, file, saved>>

\* provider.get_next_available_key() of the iteration; a key goes to the
\* adapter, whose request is the next await.
FetchKey(c) ==
    /\ running = c
    /\ call[c].pc = "selected"
    /\ LET p == call[c].provider
           r == GetNextAvailableKey(providers[p], now)
           provs1 == [providers EXCEPT ![p] = r.provider]
           fired == Fired(providers, provs1)
       IN /\ providers' = provs1
          /\ IF r.key <= 0
             THEN /\ call' = [call EXCEPT
                                ![c].pc = IF r.key = 0 THEN "loop" ELSE "raised",
                                ![c].attempt = call[c].attempt + 1]
                  /\ running' = c
             ELSE /\ call' = [call EXCEPT
                                ![c].pc = "awaiting", ![c].key = r.key,
                                ![c].invoked = Append(call[c].invoked, <<p, r.key>>)]
                  /\ running' = NoCaller
          /\ charged' = ChargedAfter(charged, fired)
          /\ marked' = MarkedAfter(marked, fired)
          /\ keyLog' = KeyLogAfter(keyLog, p, r)
          /\ streak' = StreakAfter(streak, provs1)
          /\ last' = [NoLast EXCEPT
                        !.op = "get_next_available_key", !.caller = c,
                        !.raised = (r.key = -1),
                        !.checked = [j \in 1..Len(r.visited) |-> <<p, r.visited[j]>>],
                        !.returned = IF r.key <= 0 THEN <<>> ELSE <<<<p, r.key>>>>,
                        !.fired = fired,
                        !.wasLimited = Limited(providers, {<<p, r.visited[j]>> : j \in 1..Len(r.visited)})]
    /\ UNCHANGED <<now, current_provider_index, stats, session, active, proc, file, saved>>

\* The adapter's request completes and generate interprets the result.
AdapterResponse(c, outcome, textLen) ==
    /\ running = NoCaller
    /\ call[c].pc = "awaiting"
    /\ LET p == call[c].provider
           i == call[c].key
           key == providers[p].api_keys[i]
           a == AdapterGenerate(key, providers[p].name, call[c].prompt, outcome, textLen)
           provs1 == [providers EXCEPT ![p].api_keys[i] = a.key]
       IN /\ outcome \in {"http", "exception"} => key.error_count < MaxErrors
          /\ outcome # "ok" => textLen = 0
          /\ providers' = provs1
          /\ IF a.result.success
             THEN /\ stats' = [stats EXCEPT
                        !.successful_requests = stats.successful_requests + 1,
                        !.provider_usage[providers[p].name] =
                            stats.provider_usage[providers[p].name] + 1]
                  /\ call' = [call EXCEPT ![c].pc = "done", ![c].result = a.result]
                  /\ running' = c
                  /\ streak' = StreakAfter(
                        [streak EXCEPT
                           ![p] = [n |-> IF streak[p].n < Len(providers[p].api_keys)
                                         THEN streak[p].n + 1 ELSE streak[p].n,
                                   keys |-> streak[p].keys \cup {i}]], provs1)
             ELSE /\ call' = [call EXCEPT ![c].pc = "loop",
                                          ![c].attempt = call[c].attempt + 1]
                  /\ running' = c
                  /\ streak' = NoStreak
                  /\ UNCHANGED stats
          /\ charged' = IF outcome = "ok"
                        THEN [charged EXCEPT ![<<p, i>>] = @ + call[c].prompt + textLen]
                        ELSE charged
          /\ marked' = IF outcome = "429"
                        THEN [marked EXCEPT ![<<p, i>>] = now]
                        ELSE marked
          /\ keyLog' = IF a.key = key THEN keyLog ELSE [keyLog EXCEPT ![p] = <<>>]
          /\ last' = [NoLast EXCEPT
                        !.op = "adapter", !.caller = c, !.outcome = outcome,
                        !.key = <<p, i>>,
                        !.charge = IF outcome = "ok" THEN call[c].prompt + textLen ELSE 0]
    /\ UNCHANGED <<now, current_provider_index, session, active, proc, file, saved>>

\* asyncio.sleep(60) of the "no available providers" branch ends.
SleepWake(c) ==
    /\ running = NoCaller
    /\ call[c].pc = "sleeping"
    /\ call' = [call EXCEPT ![c].pc = "loop", ![c].attempt = call[c].attempt + 1,
                            ![c].slept = call[c].slept + 1]
    /\ running' = c
    /\ last' = [NoLast EXCEPT !.op = "wake", !.caller = c]
    /\ UNCHANGED <<now, providers, current_provider_index, stats, session, active, proc,
                   file, charged, marked, keyLog, streak, saved>>

\* generate returns (or raises) to its caller, in the caller's own task.
Return(c) ==
    /\ running = c
    /\ call[c].pc \in {"done", "raised"}
    /\ call' = [call EXCEPT ![c] = IdleCall]
    /\ running' = NoCaller
    /\ last' = [NoLast EXCEPT !.op = "return", !.caller = c]
    /\ UNCHANGED <<now, providers, current_provider_index, stats, session,
                   active, proc, file, charged, marked, keyLog, streak, saved>>

\* ------------------------------------------------- the other operations

\* get_next_provider called on its own.
GetNextProviderCall ==
    /\ running = NoCaller
    /\ proc = "up"
    /\ \E c \in active : call[c].pc = "idle"
    /\ LET r == GetNextProvider(providers, current_provider_index, now)
           fired == Fired(providers, r.providers)
       IN /\ providers' = r.providers
          /\ current_provider_index' = r.current_provider_index
          /\ charged' = ChargedAfter(charged, fired)
          /\ marked' = MarkedAfter(marked, fired)
          /\ keyLog' = KeyLogAfterProbes(keyLog, r.probes)
          /\ last' = [NoLast EXCEPT
                        !.op = "get_next_provider", !.raised = (r.result = -1),
                        !.checked = ProbeChecked(r.probes),
                        !.returned = ProbeReturned(r.probes),
                        !.fired = fired,
                        !.wasLimited = Limited(providers, Range(ProbeChecked(r.probes)))]
    /\ streak' = NoStreak
    /\ UNCHANGED <<now, stats, session, call, running, active, proc, file, saved>>

\* get_next_available_key called on its own, on provider p.
GetNextAvailableKeyCall(p) ==
    /\ running = NoCaller
    /\ proc = "up"
    /\ \E c \in active : call[c].pc = "idle"
    /\ p \in 1..Len(providers)
    /\ LET r == GetNextAvailableKey(providers[p], now)
           provs1 == [providers EXCEPT ![p] = r.provider]
           fired == Fired(providers, provs1)
       IN /\ providers' = provs1
          /\ charged' = ChargedAfter(charged, fired)
          /\ marked' = MarkedAfter(marked, fired)
          /\ keyLog' = KeyLogAfter(keyLog, p, r)
          /\ last' = [NoLast EXCEPT
                        !.op = "get_next_available_key", !.raised = (r.key = -1),
                        !.checked = [j \in 1..Len(r.visited) |-> <<p, r.visited[j]>>],
                        !.returned = IF r.key <= 0 THEN <<>> ELSE <<<<p, r.key>>>>,
                        !.fired = fired,
                        !.wasLimited = Limited(providers, {<<p, r.visited[j]>> : j \in 1..Len(r.visited)})]
    /\ streak' = NoStreak
    /\ UNCHANGED <<now, current_provider_index, stats, session, call, running,
                   active, proc, file, saved>>

\* The keys of the rotator in the order get_status_report reads them.
RECURSIVE AllKeysSeqFrom(_, _)
AllKeysSeqFrom(provs, p) ==
    IF p > Len(provs) THEN <<>>
    ELSE [i \in 1..Len(provs[p].api_keys) |-> <<p, i>>] \o AllKeysSeqFrom(provs, p + 1)

AllKeysSeq(provs) == AllKeysSeqFrom(provs, 1)

\* get_status_report reads is_available and then remaining of every key.
StatusReportKeys(provs, t) ==
    [p \in 1..Len(provs) |->
        [provs[p] EXCEPT !.api_keys =
            [i \in 1..Len(provs[p].api_keys) |->
                Remaining(IsAvailable(provs[p].api_keys[i], t).key, t).key]]]

GetStatusReport ==
    /\ running = NoCaller
    /\ proc = "up"
    /\ \E c \in active : call[c].pc = "idle"
    /\ LET provs1 == StatusReportKeys(providers, now)
           fired == Fired(providers, provs1)
       IN /\ providers' = provs1
          /\ charged' = ChargedAfter(charged, fired)
          /\ marked' = MarkedAfter(marked, fired)
          /\ keyLog' = [p \in ProvIdx |->
                          IF p <= Len(providers) /\ provs1[p] # providers[p]
                          THEN <<>> ELSE keyLog[p]]
          /\ streak' = StreakAfter(streak, provs1)
          /\ last' = [NoLast EXCEPT
                        !.op = "get_status_report", !.fired = fired,
                        !.checked = AllKeysSeq(providers),
                        !.wasLimited = Limited(providers, KeysOf(providers))]
    /\ UNCHANGED <<now, current_provider_index, stats, session, call, running,
                   active, proc, file, saved>>

\* The wall clock advances.
Tick ==
    /\ running = NoCaller
    /\ proc # "new"
    /\ now + TickHours <= MaxTime
    /\ now' = now + TickHours
    /\ last' = [NoLast EXCEPT !.op = "tick"]
    /\ UNCHANGED <<providers, current_provider_index, stats, session, call, running,
                   active, proc, file, charged, marked, keyLog, streak, saved>>

\* -------------------------------------------------------- persistence

\* datetime.isoformat / datetime.fromisoformat: the calendar fields.
IsoFormat(t) == [day |-> t \div 24, hour |-> t % 24]
FromIsoFormat(d) == d.day * 24 + d.hour

\* ProviderStatus.value / ProviderStatus(value).
StatusValue(st) ==
    CASE st = ACTIVE -> "active"
      [] st = RATE_LIMITED -> "rate_limited"
      [] st = ERROR -> "error"
      [] OTHER -> "disabled"
StatusFromValue(v) == CHOOSE st \in ProviderStatus : StatusValue(st) = v

\* The document save_state writes.
StateDocument(provs, cpi, st) ==
    [exists |-> TRUE,
     stats |-> st,
     current_provider_index |-> cpi,
     providers |->
        [p \in 1..Len(provs) |->
            [name |-> provs[p].name,
             current_key_index |-> provs[p].current_key_index,
             keys |-> [i \in 1..Len(provs[p].api_keys) |->
                         [used_today |-> provs[p].api_keys[i].used_today,
                          last_reset |-> IsoFormat(provs[p].api_keys[i].last_reset),
                          status |-> StatusValue(provs[p].api_keys[i].status),
                          error_count |-> provs[p].api_keys[i].error_count]]]]]

\* LoadProvider leaving error_count as the constructor set it.
LoadProviderNoErrorCount(prov, doc) ==
    LET match == {q \in 1..Len(doc.providers) : doc.providers[q].name = prov.name}
    IN IF match = {} THEN prov
       ELSE LET ps == doc.providers[CHOOSE q \in match : TRUE]
            IN [prov EXCEPT
                  !.current_key_index = ps.current_key_index,
                  !.api_keys =
                     [i \in 1..Len(prov.api_keys) |->
                        IF i <= Len(ps.keys)
                        THEN [prov.api_keys[i] EXCEPT
                                !.used_today = ps.keys[i].used_today,
                                !.last_reset = FromIsoFormat(ps.keys[i].last_reset),
                                !.status = StatusFromValue(ps.keys[i].status)]
                        ELSE prov.api_keys[i]]]

\* LoadProvider giving a key without a counterpart the state of the document's
\* last key of the provider.
LoadProviderFillsExtra(prov, doc) ==
    LET match == {q \in 1..Len(doc.providers) : doc.providers[q].name = prov.name}
    IN IF match = {} THEN prov
       ELSE LET ps == doc.providers[CHOOSE q \in match : TRUE]
                src(i) == IF i <= Len(ps.keys) THEN i ELSE Len(ps.keys)
            IN [prov EXCEPT
                  !.current_key_index = ps.current_key_index,
                  !.api_keys =
                     [i \in 1..Len(prov.api_keys) |->
                        IF Len(ps.keys) > 0
                        THEN [prov.api_keys[i] EXCEPT
                                !.used_today = ps.keys[src(i)].used_today,
                                !.last_reset = FromIsoFormat(ps.keys[src(i)].last_reset),
                                !.status = StatusFromValue(ps.keys[src(i)].status),
                                !.error_count = ps.keys[src(i)].error_count]
                        ELSE prov.api_keys[i]]]

\* load_state's loops over the document: a provider of the rotator takes the
\* cursor and, position by position, the keys of the document's provider of
\* the same name.
LoadProvider(prov, doc) ==
    LET match == {q \in 1..Len(doc.providers) : doc.providers[q].name = prov.name}
    IN IF match = {} THEN prov
       ELSE LET ps == doc.providers[CHOOSE q \in match : TRUE]
            IN [prov EXCEPT
                  !.current_key_index = ps.current_key_index,
                  !.api_keys =
                     [i \in 1..Len(prov.api_keys) |->
                        IF i <= Len(ps.keys)
                        THEN [prov.api_keys[i] EXCEPT
                                !.used_today = ps.keys[i].used_today,
                                !.last_reset = FromIsoFormat(ps.keys[i].last_reset),
                                !.status = StatusFromValue(ps.keys[i].status),
                                !.error_count = ps.keys[i].error_count]
                        ELSE prov.api_keys[i]]]

LoadProviders(provs, doc) == [p \in 1..Len(provs) |-> LoadProvider(provs[p], doc)]

Quiet == running = NoCaller /\ \A c \in Callers : call[c].pc = "idle"

\* save_state as shutdown calls it (src/main.py:446): the state is written
\* and the process ends, so no caller is left until the next start.
SaveState ==
    /\ Quiet
    /\ proc = "up"
    /\ file' = StateDocument(providers, current_provider_index, stats)
    /\ saved' = [exists |-> TRUE, providers |-> providers,
                 current_provider_index |-> current_provider_index, stats |-> stats]
    /\ proc' = "down"
    /\ last' = [NoLast EXCEPT !.op = "save_state"]
    /\ UNCHANGED <<now, providers, current_provider_index, stats, session, call,
                   running, active, charged, marked, keyLog, streak>>

\* load_state, called on the rotator just constructed; FileNotFoundError is
\* caught and nothing is loaded.
LoadState ==
    /\ Quiet
    /\ proc = "new"
    /\ proc' = "up"
    /\ IF file.exists
       THEN /\ stats' = file.stats
            /\ current_provider_index' = file.current_provider_index
            /\ providers' = LoadProviders(providers, file)
            /\ marked' = NoMarked
            /\ charged' = [id \in KeyIds |->
                             IF id \in KeysOf(providers)
                             THEN KeyAt(LoadProviders(providers, file), id).used_today
                             ELSE 0]
       ELSE UNCHANGED <<stats, current_provider_index, providers, charged, marked>>
    /\ keyLog' = NoKeyLog
    /\ streak' = NoStreak
    /\ last' = [NoLast EXCEPT !.op = "load_state"]
    /\ UNCHANGED <<now, session, call, running, active, file, saved>>

\* LoadedState taking a missing file as an order to start afresh.
LoadedStateFreshStart(provs, cpi, st, doc) ==
    IF doc.exists
    THEN [providers |-> LoadProviders(provs, doc),
          current_provider_index |-> doc.current_provider_index,
          stats |-> doc.stats]
    ELSE [providers |-> provs, current_provider_index |-> 0, stats |-> NewStats]

\* What load_state leaves in a rotator holding provs, cpi and st: with no file
\* the rotator as it was (FileNotFoundError is caught).
LoadedState(provs, cpi, st, doc) ==
    IF doc.exists
    THEN [providers |-> LoadProviders(provs, doc),
          current_provider_index |-> doc.current_provider_index,
          stats |-> doc.stats]
    ELSE [providers |-> provs, current_provider_index |-> cpi, stats |-> st]

\* load_state called on a rotator that has been running, before any state
\* has been saved (the start from a saved state is LoadState).
LoadStateRunning ==
    /\ Quiet
    /\ proc = "up"
    /\ stats.total_requests > 0
    /\ ~file.exists
    /\ LET r == LoadedState(providers, current_provider_index, stats, file)
       IN /\ providers' = r.providers
          /\ current_provider_index' = r.current_provider_index
          /\ stats' = r.stats
          /\ charged' = IF file.exists
                        THEN [id \in KeyIds |->
                                IF id \in KeysOf(providers)
                                THEN KeyAt(r.providers, id).used_today ELSE 0]
                        ELSE charged
          /\ marked' = IF file.exists THEN NoMarked ELSE marked
    /\ keyLog' = NoKeyLog
    /\ streak' = NoStreak
    /\ last' = [NoLast EXCEPT !.op = "load_state"]
    /\ UNCHANGED <<now, session, call, running, active, proc, file, saved>>

\* The process starts again: a rotator is constructed from cfg.
Restart(cfg) ==
    /\ Quiet
    /\ proc = "down"
    /\ proc' = "new"
    /\ providers' = NewProviders(cfg, now)
    /\ current_provider_index' = 0
    /\ stats' = NewStats
    /\ session' = "none"
    /\ charged' = ZeroCharged
    /\ marked' = NoMarked
    /\ keyLog' = NoKeyLog
    /\ streak' = NoStreak
    /\ last' = [NoLast EXCEPT !.op = "restart"]
    /\ UNCHANGED <<now, call, running, active, file, saved>>

\* ------------------------------------------------- external configuration

\* An operator disables a key by hand: the generate path never sets DISABLED,
\* the status comes from outside, between two steps of the event loop.
DisableKey(id) ==
    /\ running = NoCaller
    /\ proc = "up"
    /\ id \in KeysOf(providers)
    /\ KeyAt(providers, id).status # DISABLED
    /\ providers' = [providers EXCEPT ![id[1]].api_keys[id[2]].status = DISABLED]
    /\ keyLog' = [keyLog EXCEPT ![id[1]] = <<>>]
    /\ streak' = NoStreak
    /\ last' = [NoLast EXCEPT !.op = "disable", !.key = id]
    /\ UNCHANGED <<now, current_provider_index, stats, session, call, running,
                   active, proc, file, charged, marked, saved>>

\* ----------------------------------------------------------- specifications

TotalKeys(cfg) == cfg["gemini"] + cfg["groq"]
SmallConfigs == {cfg \in Configs : TotalKeys(cfg) <= MaxSmallKeys}

GeneratePath ==
    \/ \E c \in Callers, n \in 0..MaxPromptLen, m \in 0..MaxRetries : GenerateCall(c, n, m)
    \/ \E c \in Callers : LoopTop(c)
    \/ \E c \in Callers : FetchKey(c)
    \/ \E c \in Callers, o \in Outcomes, n \in 0..MaxTextLen : AdapterResponse(c, o, n)
    \/ \E c \in Callers : SleepWake(c)
    \/ \E c \in Callers : Return(c)

\* One caller at a time drives the rotator through generate.
Init == \E cfg \in Configs : InitWith(cfg, {"c1"}, "up")

Next ==
    \/ GeneratePath
    \/ GetStatusReport
    \/ Tick

Spec == Init /\ [][Next]_vars

\* Two callers share the rotator.
InitConc == \E cfg \in SmallConfigs : InitWith(cfg, Callers, "up")

SpecConc == InitConc /\ [][Next]_vars

\* The selection operations are also called on their own.
InitDirect == \E cfg \in SmallConfigs : InitWith(cfg, {"c1"}, "up")

NextDirect ==
    \/ GeneratePath
    \/ GetStatusReport
    \/ Tick
    \/ GetNextProviderCall
    \/ \E p \in ProvIdx : GetNextAvailableKeyCall(p)

SpecDirect == InitDirect /\ [][NextDirect]_vars

\* The state is saved, the process restarted and the state loaded.
NextPersist ==
    \/ \E c \in Callers : GenerateCall(c, MaxPromptLen, 1)
    \/ \E c \in Callers : LoopTop(c)
    \/ \E c \in Callers : FetchKey(c)
    \/ \E c \in Callers, o \in Outcomes, n \in 0..MaxTextLen : AdapterResponse(c, o, n)
    \/ \E c \in Callers : SleepWake(c)
    \/ \E c \in Callers : Return(c)
    \/ Tick
    \/ SaveState
    \/ LoadState
    \/ \E cfg \in SmallConfigs : Restart(cfg)

InitPersist == \E cfg \in SmallConfigs : InitWith(cfg, {"c1"}, "new")

SpecPersist == InitPersist /\ [][NextPersist]_vars

\* load_state is also called on a rotator in use, with no file to load.
NextReload ==
    \/ NextPersist
    \/ LoadStateRunning

SpecReload == InitPersist /\ [][NextReload]_vars

\* A key may be disabled by hand while the rotator runs.
NextDisabled ==
    \/ NextDirect
    \/ \E id \in KeyIds : DisableKey(id)

SpecDisabled == InitDirect /\ [][NextDisabled]_vars

\* ------------------------------------------------------------------ claims

\* The providers with a key in the set ids.
ProvidersOf(ids) == {id[1] : id \in ids}

\* C1: one generate call with max_retries = m calls get_next_provider at most
\* m times and an adapter at most m times, and a call that ends without a
\* success has used up its m iterations and returns all_providers_exhausted.
C1_BoundedRetries ==
    \A c \in Callers :
        /\ call[c].nSel <= call[c].max_retries
        /\ Len(call[c].invoked) <= call[c].max_retries
        /\ call[c].attempt <= call[c].max_retries
        /\ (call[c].pc = "done" /\ ~call[c].result.success) =>
              /\ call[c].result = Exhausted
              /\ call[c].attempt = call[c].max_retries
              /\ call[c].nSel = call[c].max_retries

\* A call of MaxRetries iterations, each of which invoked an adapter and
\* failed, has returned all_providers_exhausted.
C1_Witness ==
    /\ call["c1"].pc = "done"
    /\ call["c1"].result = Exhausted
    /\ call["c1"].max_retries = MaxRetries
    /\ Len(call["c1"].invoked) = MaxRetries

\* C2: with two providers of which only B has an available key when generate
\* is called with max_retries >= 1, the first iteration hands a key of B to
\* B's adapter wherever the provider cursor stands, and if that adapter call
\* succeeds generate returns its result with provider = B, A's adapter never
\* having been invoked.
C2_SkipsExhaustedProvider ==
    \A c \in Callers : \A A \in {1, 2} :
        LET B == 3 - A IN
        (/\ Len(providers) = 2
         /\ call[c].pc # "idle"
         /\ call[c].max_retries >= 1
         /\ ProvidersOf(call[c].start.avail) = {B}) =>
            /\ call[c].pc # "raised"
            /\ call[c].attempt = 0 =>
                  call[c].pc \in {"loop", "selected", "awaiting", "done"}
            /\ call[c].pc \in {"selected", "awaiting"} /\ call[c].attempt = 0 =>
                  call[c].provider = B
            /\ call[c].attempt >= 1 \/ call[c].pc = "done" =>
                  /\ Len(call[c].invoked) >= 1
                  /\ call[c].invoked[1][1] = B
            /\ call[c].pc = "done" /\ call[c].attempt = 0 =>
                  /\ call[c].result.success
                  /\ call[c].result.provider = providers[B].name
                  /\ call[c].nSel = 1
                  /\ Len(call[c].invoked) = 1

\* generate has returned B's text although the provider cursor stood at A,
\* which had no available key.
C2_Witness ==
    \E A \in {1, 2} :
        /\ Len(providers) = 2
        /\ call["c1"].pc = "done"
        /\ call["c1"].result.success
        /\ call["c1"].result.provider = providers[3 - A].name
        /\ ProvidersOf(call["c1"].start.avail) = {3 - A}
        /\ call["c1"].start.cursor + 1 = A

ScanOps == {"get_next_provider", "get_next_available_key", "get_status_report"}

\* C3: a RATE_LIMITED key whose 24 hours have not passed is not returned by
\* get_next_available_key, stays RATE_LIMITED and goes to no adapter; a
\* RATE_LIMITED key whose 24 hours have passed is ACTIVE and available after
\* the availability check that fires its reset, and the scan that checked it
\* returns it.
C3_RateLimitedAvailability ==
    [][\A id \in KeysOf(providers) :
          LET key == KeyAt(providers, id) IN
          key.status = RATE_LIMITED /\ last'.op \in ScanOps =>
             IF now - key.last_reset < ResetHours
             THEN /\ id \notin Range(last'.returned)
                  /\ KeyAt(providers', id) = key
                  /\ \A c \in Callers :
                        call'[c].pc = "awaiting" /\ call[c].pc # "awaiting" =>
                           <<call'[c].provider, call'[c].key>> # id
             ELSE id \in Range(last'.checked) =>
                  /\ KeyAt(providers', id).status = ACTIVE
                  /\ AvailableAt(KeyAt(providers', id), now)
                  /\ last'.op # "get_status_report" => id \in Range(last'.returned)
      ]_vars

\* A key that was RATE_LIMITED has been reset by the scan that then returned it.
C3_Witness ==
    /\ last.op \in {"get_next_provider", "get_next_available_key"}
    /\ \E id \in last.wasLimited : id \in last.fired /\ id \in Range(last.returned)

\* C4: while every key of a provider is available and none changes, the keys
\* returned by consecutive get_next_available_key calls follow the cursor, and
\* k = len(api_keys) consecutive calls return each of the k keys exactly once.
C4_RoundRobinFairness ==
    \A p \in 1..Len(providers) :
        LET k == Len(providers[p].api_keys)
            log == keyLog[p]
        IN /\ Len(log) <= k
           /\ \A j \in 1..(Len(log) - 1) : log[j + 1] = (log[j] % k) + 1
           /\ Len(log) >= 1 => providers[p].current_key_index = log[Len(log)] % k
           /\ Len(log) = k => Range(log) = 1..k

\* MaxKeys consecutive calls on a provider of MaxKeys available keys, the first
\* of them with the cursor not at the first key.
C4_Witness ==
    \E p \in 1..Len(providers) :
        /\ Len(providers[p].api_keys) = MaxKeys
        /\ Len(keyLog[p]) = MaxKeys
        /\ keyLog[p][1] # 1


\* C5: under repeated generate calls of a single caller, with all keys of a
\* provider staying available and every adapter call succeeding, each key of
\* the provider is handed to the adapter and charged: after as many successive
\* generations as the provider has keys, every key has served.
C5_NoKeyStarved ==
    \A p \in 1..Len(providers) :
        streak[p].n >= Len(providers[p].api_keys) =>
            streak[p].keys = 1..Len(providers[p].api_keys)


\* C6: for every key, used_today is the sum of the charges
\* len(prompt) + len(text) of the successful generations served with the key
\* since its last reset: a 429 and an error add nothing, and the charges of
\* concurrent callers on one key all arrive.
C6_QuotaAccounting ==
    \A id \in KeysOf(providers) : KeyAt(providers, id).used_today = charged[id]

\* A caller's generation has just been charged to the key that another
\* caller's adapter request, still in flight, is using.
C6_Witness ==
    /\ last.op = "adapter"
    /\ last.outcome = "ok"
    /\ last.charge > 0
    /\ last.caller = "c2"
    /\ call["c1"].pc = "awaiting"
    /\ <<call["c1"].provider, call["c1"].key>> = last.key

\* C7: with a single caller, the key handed to an adapter has
\* used_today < daily_limit, a charge lands only on a key that was below its
\* limit, and so used_today exceeds daily_limit by less than one call's charge.
C7_SoftQuotaBound ==
    /\ \A c \in Callers :
          call[c].pc = "awaiting" =>
             LET key == KeyAt(providers, <<call[c].provider, call[c].key>>)
             IN key.used_today < key.daily_limit
    /\ last.op = "adapter" /\ last.outcome = "ok" =>
          LET key == KeyAt(providers, last.key)
          IN key.used_today - last.charge < key.daily_limit
    /\ \A id \in KeysOf(providers) :
          LET key == KeyAt(providers, id)
          IN key.used_today <= key.daily_limit - 1 + MaxPromptLen + MaxTextLen

\* A successful generation has taken a key over its daily limit.
C7_Witness ==
    /\ last.op = "adapter"
    /\ last.outcome = "ok"
    /\ KeyAt(providers, last.key).used_today > KeyAt(providers, last.key).daily_limit


\* The providers and the number of keys of each: the rotator's configuration.
ConfigOf(provs) == [p \in 1..Len(provs) |-> <<provs[p].name, Len(provs[p].api_keys)>>]

\* C8: after save_state and then load_state into a freshly constructed rotator
\* of the same configuration, the rotator has the state that was saved: the
\* same current_provider_index, the same current_key_index of every provider,
\* the same used_today, last_reset, status and error_count of every key, and
\* the same counters.
C8_SaveLoadRoundTrip ==
    (/\ last.op = "load_state"
     /\ file.exists
     /\ saved.exists
     /\ ConfigOf(providers) = ConfigOf(saved.providers))
    => /\ current_provider_index = saved.current_provider_index
       /\ providers = saved.providers
       /\ stats = saved.stats

\* A state with a moved key cursor, a charged key, a RATE_LIMITED key and
\* counted requests has been saved and loaded into a new rotator.
C8_Witness ==
    /\ last.op = "load_state"
    /\ file.exists
    /\ saved.exists
    /\ ConfigOf(providers) = ConfigOf(saved.providers)
    /\ \E p \in 1..Len(providers) : providers[p].current_key_index # 0
    /\ \E id \in KeysOf(providers) : KeyAt(providers, id).used_today > 0
    /\ \E id \in KeysOf(providers) : KeyAt(providers, id).status = RATE_LIMITED
    /\ stats.successful_requests > 0

\* C9: every availability check of a key runs reset_if_needed, which sets
\* used_today to 0, last_reset to now and status to ACTIVE if and only if at
\* least 24 hours have passed since the key's last_reset, and changes nothing
\* otherwise; keys that are not checked do not change.  The last_reset may be
\* one that load_state restored.
C9_LazyResetIff ==
    [][last'.op \in ScanOps =>
          \A id \in KeysOf(providers) :
             LET key == KeyAt(providers, id)
                 key1 == KeyAt(providers', id)
             IN IF id \in Range(last'.checked) /\ now - key.last_reset >= ResetHours
                THEN /\ id \in last'.fired
                     /\ key1 = [key EXCEPT !.used_today = 0, !.last_reset = now,
                                           !.status = ACTIVE]
                ELSE /\ id \notin last'.fired
                     /\ key1 = key
      ]_vars

\* The first availability check after load_state has reset a key that the
\* file holds with a used_today above 0 and a last_reset 24 hours or more ago.
C9_Witness ==
    /\ proc = "up"
    /\ file.exists
    /\ last.op = "get_next_provider"
    /\ stats.total_requests = file.stats.total_requests + 1
    /\ \E id \in last.fired :
          /\ id[1] <= Len(file.providers)
          /\ file.providers[id[1]].name = providers[id[1]].name
          /\ id[2] <= Len(file.providers[id[1]].keys)
          /\ file.providers[id[1]].keys[id[2]].used_today > 0
          /\ now - FromIsoFormat(file.providers[id[1]].keys[id[2]].last_reset) >= ResetHours
          /\ KeyAt(providers, id).used_today = 0
          /\ KeyAt(providers, id).status = ACTIVE

\* A generate call that began while the only key of the only provider was
\* RATE_LIMITED, no reset of the key having fired since.
BlockedCall(c) ==
    /\ Len(providers) = 1
    /\ Len(providers[1].api_keys) = 1
    /\ call[c].pc # "idle"
    /\ call[c].start.limited = {<<1, 1>>}
    /\ providers[1].api_keys[1].last_reset <= call[c].start.time

\* C10: an adapter call answered with 429 sets the key's status to
\* RATE_LIMITED and changes nothing else of the key; with one provider of one
\* key, a generate call made while the key is RATE_LIMITED and before its
\* reset invokes no adapter and returns all_providers_exhausted.
C10_RateLimitedThenExhausted ==
    [][/\ last'.op = "adapter" /\ last'.outcome = "429" =>
             KeyAt(providers', last'.key) =
                [KeyAt(providers, last'.key) EXCEPT !.status = RATE_LIMITED]
       /\ \A c \in Callers :
             BlockedCall(c)' =>
                /\ call'[c].invoked = <<>>
                /\ call'[c].pc \in {"loop", "sleeping", "done"}
                /\ call'[c].pc = "done" => call'[c].result = Exhausted
      ]_vars

\* With one provider of one key, RATE_LIMITED by a 429, a generate call of
\* MaxRetries iterations has slept through each of them and returned
\* all_providers_exhausted.
C10_Witness ==
    /\ BlockedCall("c1")
    /\ providers[1].api_keys[1].status = RATE_LIMITED
    /\ call["c1"].pc = "done"
    /\ call["c1"].result = Exhausted
    /\ call["c1"].max_retries = MaxRetries
    /\ call["c1"].slept = MaxRetries


\* The adapter outcomes that are failures other than a 429.
OtherFailures == {"http", "exception"}

\* C11: an adapter call that fails other than by 429 adds exactly 1 to the
\* key's error_count and changes nothing else of the key, and the
\* availability of a key does not depend on its error_count, however large.
C11_ErrorCountOnly ==
    [][/\ last'.op = "adapter" /\ last'.outcome \in OtherFailures =>
             LET key == KeyAt(providers, last'.key)
             IN /\ KeyAt(providers', last'.key) =
                      [key EXCEPT !.error_count = key.error_count + 1]
                /\ \A id \in KeysOf(providers) \ {last'.key} :
                      KeyAt(providers', id) = KeyAt(providers, id)
       /\ \A id \in KeysOf(providers') :
             \A n \in 0..(MaxErrors + MaxRequests * MaxRetries) :
                AvailableAt([KeyAt(providers', id) EXCEPT !.error_count = n], now')
                   = AvailableAt([KeyAt(providers', id) EXCEPT !.error_count = 0], now')
      ]_vars

\* A key that has failed MaxErrors times has been handed to an adapter again.
C11_Witness ==
    \E c \in Callers :
        /\ call[c].pc = "awaiting"
        /\ KeyAt(providers, <<call[c].provider, call[c].key>>).error_count = MaxErrors
        /\ KeyAt(providers, <<call[c].provider, call[c].key>>).status = ACTIVE


\* C12: generate never raises, whatever the configuration and the outcomes of
\* its adapter calls: no call ends in an exception, and a call that has ended
\* holds either a success with a text and the serving provider's name or the
\* failure all_providers_exhausted.
C12_GenerateNeverRaises ==
    \A c \in Callers :
        /\ call[c].pc # "raised"
        /\ ~last.raised
        /\ call[c].pc = "done" =>
              \/ /\ call[c].result.success
                 /\ call[c].result.provider = providers[call[c].provider].name
                 /\ call[c].result.error = ""
              \/ call[c].result = Exhausted

\* A call has come through MaxRetries adapter calls, the last of which left an
\* error on its key and another a 429, and has returned a result.
C12_Witness ==
    /\ call["c1"].pc = "done"
    /\ call["c1"].result = Exhausted
    /\ Len(call["c1"].invoked) = MaxRetries
    /\ KeyAt(providers, call["c1"].invoked[MaxRetries]).error_count > 0
    /\ \E id \in KeysOf(providers) : KeyAt(providers, id).status = RATE_LIMITED


\* C13: generate never returns success = true together with an empty text: a
\* 200 response from which no text can be extracted is reported as a failure.
C13_NoSilentEmptyText ==
    \A c \in Callers :
        call[c].pc = "done" /\ call[c].result.success => call[c].result.text > 0


\* C14: within one generate call at most one adapter call is outstanding (every
\* adapter call but the last has ended and used up an iteration), the call
\* ends at its first success, and a key's used_today is only increased by the
\* one successful adapter call that ends a generate call.
C14_OneAdapterAtATime ==
    [][/\ \A id \in KeysOf(providers) :
             KeyAt(providers', id).used_today > KeyAt(providers, id).used_today =>
                /\ last'.op = "adapter"
                /\ last'.outcome = "ok"
                /\ last'.key = id
                /\ call[last'.caller].pc = "awaiting"
                /\ <<call[last'.caller].provider, call[last'.caller].key>> = id
                /\ call'[last'.caller].pc = "done"
                /\ call'[last'.caller].result.success
                /\ \A other \in KeysOf(providers) \ {id} :
                      KeyAt(providers', other).used_today
                         <= KeyAt(providers, other).used_today
       /\ \A c \in Callers :
             /\ Len(call'[c].invoked) + call'[c].slept <= call'[c].attempt + 1
             /\ (call'[c].pc \in {"loop", "sleeping", "selected"}
                 \/ (call'[c].pc = "done" /\ ~call'[c].result.success)) =>
                   Len(call'[c].invoked) + call'[c].slept <= call'[c].attempt
             /\ call[c].pc = "done" => call'[c].pc \in {"done", "idle"}
             /\ call[c].pc = "done" /\ call'[c].pc = "done" => call'[c] = call[c]
      ]_vars

\* A call whose first adapter call failed on one key has succeeded with its
\* second on another key, and only the second key has been charged.
C14_Witness ==
    /\ call["c1"].pc = "done"
    /\ call["c1"].result.success
    /\ Len(call["c1"].invoked) = 2
    /\ call["c1"].invoked[1] # call["c1"].invoked[2]
    /\ last.op = "adapter"
    /\ last.charge > 0
    /\ KeyAt(providers, call["c1"].invoked[1]).used_today = 0
    /\ KeyAt(providers, call["c1"].invoked[2]).used_today = last.charge


\* C15: a key whose status is DISABLED stays DISABLED and is not selected:
\* no generate call, availability check, get_next_available_key call or status
\* report, and no passage of time, changes its status, returns it or hands
\* it to an adapter.
C15_DisabledIsTerminal ==
    [][\A id \in KeysOf(providers) :
          KeyAt(providers, id).status = DISABLED =>
             /\ KeyAt(providers', id).status = DISABLED
             /\ id \notin Range(last'.returned)
             /\ \A c \in Callers :
                   call'[c].pc = "awaiting" /\ call[c].pc # "awaiting" =>
                      <<call'[c].provider, call'[c].key>> # id
      ]_vars


\* C16: a key marked RATE_LIMITED at time t is not reactivated before t + 24
\* hours: until then it stays RATE_LIMITED, no get_next_available_key call
\* returns it and it is handed to no adapter.
C16_NoEarlyReactivation ==
    [][\A id \in KeysOf(providers) :
          marked[id] >= 0 /\ now' - marked[id] < ResetHours =>
             /\ KeyAt(providers', id).status = RATE_LIMITED
             /\ id \notin Range(last'.returned)
             /\ \A c \in Callers :
                   call'[c].pc = "awaiting" /\ call[c].pc # "awaiting" =>
                      <<call'[c].provider, call'[c].key>> # id
      ]_vars


\* No adapter call has failed and no key has been unavailable or reset since
\* the rotator was constructed.
NeverUnavailable ==
    \A id \in KeysOf(providers) :
        LET key == KeyAt(providers, id)
        IN /\ key.status = ACTIVE
           /\ key.error_count = 0
           /\ key.last_reset = 0
           /\ key.used_today < key.daily_limit

\* C17: with n providers that all keep an available key and every adapter
\* call succeeding, n consecutive generate calls of a single caller are served
\* by n distinct providers, each exactly once, in list order starting at the
\* provider cursor: each call is served by the provider at the cursor, which
\* then moves on by one.
C17_ProviderRoundRobin ==
    Len(providers) >= 2 /\ NeverUnavailable =>
       /\ stats.total_requests = Len(providers)
          /\ stats.successful_requests = Len(providers) =>
             \A p \in 1..Len(providers) : stats.provider_usage[providers[p].name] = 1
       /\ \A c \in Callers :
             call[c].pc = "done" /\ active = {c} /\ call[c].max_retries >= 1 =>
                /\ call[c].result.success
                /\ call[c].provider = call[c].start.cursor + 1
                /\ call[c].result.provider = providers[call[c].provider].name
                /\ current_provider_index = (call[c].start.cursor + 1) % Len(providers)

\* Two providers whose keys were available throughout have served two
\* successive generate calls, the second of which began with the cursor on
\* the second provider.
C17_Witness ==
    /\ Len(providers) = 2
    /\ NeverUnavailable
    /\ stats.total_requests = 2
    /\ stats.successful_requests = 2
    /\ call["c1"].pc = "done"
    /\ call["c1"].start.cursor = 1


\* C18: get_status_report is read-only: it changes no counter, no cursor and
\* no field of any key, also when a key's 24 hours have elapsed.
C18_StatusReportReadOnly ==
    [][last'.op = "get_status_report" =>
          /\ providers' = providers
          /\ stats' = stats
          /\ current_provider_index' = current_provider_index
      ]_vars

\* Whether the document holds a key for the rotator's key id: a provider of
\* the same name with a key at the same position.
HasCounterpart(doc, provs, id) ==
    \E q \in 1..Len(doc.providers) :
        /\ doc.providers[q].name = provs[id[1]].name
        /\ id[2] <= Len(doc.providers[q].keys)

\* C19: after load_state of a document that holds fewer providers or fewer
\* keys than the rotator, every key of the rotator without a counterpart in
\* the document (same provider name, same position) is as the constructor
\* made it: used_today 0, status ACTIVE, error_count 0; and the key cursor of
\* a provider the document does not name is 0.
C19_UnmatchedKeysFresh ==
    last.op = "load_state" /\ file.exists =>
       /\ \A id \in KeysOf(providers) :
             ~HasCounterpart(file, providers, id) =>
                KeyAt(providers, id) = NewKey(providers[id[1]].name, now)
       /\ \A p \in 1..Len(providers) :
             (\A q \in 1..Len(file.providers) :
                 file.providers[q].name # providers[p].name) =>
                providers[p].current_key_index = 0

\* A document with a charged key has been loaded into a rotator that has
\* that key and one more key the document does not hold.
C19_Witness ==
    /\ last.op = "load_state"
    /\ file.exists
    /\ \E id \in KeysOf(providers) : ~HasCounterpart(file, providers, id)
    /\ \E id \in KeysOf(providers) :
          /\ HasCounterpart(file, providers, id)
          /\ KeyAt(providers, id).used_today > 0


\* C20: load_state on a path where no file exists raises no error and leaves
\* the counters, the provider cursor, every key cursor and every key as they
\* were.
C20_LoadWithoutFileIsNoOp ==
    [][last'.op = "load_state" /\ ~file.exists =>
          /\ providers' = providers
          /\ stats' = stats
          /\ current_provider_index' = current_provider_index
          /\ proc' = "up"
          /\ ~last'.raised
      ]_vars

\* load_state has found no file in a rotator that has served a request and
\* holds a charged key and a moved provider cursor.
C20_Witness ==
    /\ last.op = "load_state"
    /\ ~file.exists
    /\ stats.successful_requests > 0
    /\ current_provider_index # 0
    /\ \E id \in KeysOf(providers) : KeyAt(providers, id).used_today > 0


\* C21: every session the rotator opens is closed when the rotator is shut
\* down: once shutdown has run, no session of the rotator is open.
C21_SessionClosedAtShutdown ==
    proc = "down" => session # "open"

\* C22: a rotator without providers never raises: get_next_provider returns
\* None, no adapter is invoked, and every generate call, whatever its
\* max_retries, returns all_providers_exhausted.
C22_EmptyConfigExhausted ==
    Len(providers) = 0 =>
       /\ ~last.raised
       /\ last.returned = <<>>
       /\ current_provider_index = 0
       /\ stats.successful_requests = 0
       /\ \A c \in Callers :
             /\ call[c].pc \in {"idle", "loop", "sleeping", "done"}
             /\ call[c].invoked = <<>>
             /\ call[c].nSel = call[c].slept + (IF call[c].pc = "sleeping" THEN 1 ELSE 0)
             /\ call[c].pc = "done" =>
                   /\ call[c].result = Exhausted
                   /\ call[c].nSel = call[c].max_retries

\* A rotator without providers has returned all_providers_exhausted from a
\* call of MaxRetries iterations, each of which found no provider and paused.
C22_Witness ==
    /\ Len(providers) = 0
    /\ call["c1"].pc = "done"
    /\ call["c1"].result = Exhausted
    /\ call["c1"].max_retries = MaxRetries
    /\ call["c1"].slept = MaxRetries


\* Every provider's current_key_index is an index of its api_keys.
KeyCursorsInRange ==
    \A p \in 1..Len(providers) :
        providers[p].current_key_index \in 0..(Len(providers[p].api_keys) - 1)

DocumentIsLarger(doc, provs) ==
    \/ Len(doc.providers) > Len(provs)
    \/ \E q \in 1..Len(doc.providers), p \in 1..Len(provs) :
          /\ doc.providers[q].name = provs[p].name
          /\ Len(doc.providers[q].keys) > Len(provs[p].api_keys)

\* C24: after load_state of a document saved by a rotator with more providers
\* or more keys per provider than the loading rotator, the provider cursor
\* and every key cursor are indices of the loading rotator, and the generate
\* calls that follow return without raising.
C24_LoadKeepsCursorsValid ==
    file.exists /\ proc = "up" /\ DocumentIsLarger(file, providers) =>
       /\ Len(providers) > 0 => current_provider_index < Len(providers)
       /\ \A p \in 1..Len(providers) :
             providers[p].current_key_index < Len(providers[p].api_keys)
       /\ \A c \in Callers : call[c].pc # "raised"

\* C25: from a freshly constructed rotator every key's status is ACTIVE or
\* RATE_LIMITED in every state; a key goes from ACTIVE to RATE_LIMITED only
\* in an adapter call answered with 429 on that key, and from RATE_LIMITED to
\* ACTIVE only in a reset_if_needed that fires, 24 hours after last_reset.
C25_StatusTransitions ==
    [][\A id \in KeysOf(providers) :
          LET key == KeyAt(providers, id)
              key1 == KeyAt(providers', id)
          IN /\ key1.status \in {ACTIVE, RATE_LIMITED}
             /\ key.status = ACTIVE /\ key1.status = RATE_LIMITED =>
                   /\ last'.op = "adapter"
                   /\ last'.outcome = "429"
                   /\ last'.key = id
             /\ key.status = RATE_LIMITED /\ key1.status = ACTIVE =>
                   /\ last'.op \in ScanOps
                   /\ id \in last'.fired
                   /\ now - key.last_reset >= ResetHours
                   /\ key1.last_reset = now
      ]_vars

\* A status report has just set a RATE_LIMITED key back to ACTIVE.
C25_Witness ==
    /\ last.op = "get_status_report"
    /\ \E id \in last.wasLimited :
          /\ id \in last.fired
          /\ KeyAt(providers, id).status = ACTIVE


\* C26: with several generate calls running concurrently, a key's used_today
\* still exceeds daily_limit by less than the charge of one call: a charge
\* lands only on a key that is below its limit.
C26_ConcurrentQuotaBound ==
    /\ \A id \in KeysOf(providers) :
          LET key == KeyAt(providers, id)
          IN key.used_today <= key.daily_limit - 1 + MaxPromptLen + MaxTextLen
    /\ last.op = "adapter" /\ last.outcome = "ok" /\ last.charge > 0 =>
          KeyAt(providers, last.key).used_today - last.charge
             < KeyAt(providers, last.key).daily_limit


\* C27: get_next_provider changes only current_provider_index and leaves the
\* current_key_index of every provider as it was.
C27_ProviderRotationIndependent ==
    [][last'.op = "get_next_provider" =>
          \A p \in 1..Len(providers) :
             providers'[p].current_key_index = providers[p].current_key_index
      ]_vars

\* Every get_next_provider of caller c's generate call so far has returned
\* None: no provider had an available key.
NothingSelectable(c) ==
    /\ call[c].pc \in {"loop", "sleeping", "done"}
    /\ call[c].invoked = <<>>
    /\ call[c].nSel = call[c].slept + (IF call[c].pc = "sleeping" THEN 1 ELSE 0)
    /\ call[c].attempt = call[c].slept

\* C28: a generate call of a single caller during which no provider has an
\* available key invokes no adapter, pauses once per iteration, and none of
\* its steps changes current_provider_index, a current_key_index or a key;
\* total_requests is increased by 1 when the call begins, failed_requests by
\* 1 when it ends with all_providers_exhausted, and no other counter changes.
C28_BlockedCallFrame ==
    [][\A c \in Callers :
          active = {c} /\ NothingSelectable(c)' =>
             /\ providers' = providers
             /\ current_provider_index' = current_provider_index
             /\ stats'.successful_requests = stats.successful_requests
             /\ stats'.provider_usage = stats.provider_usage
             /\ stats'.total_requests =
                   stats.total_requests + (IF call[c].pc = "idle" THEN 1 ELSE 0)
             /\ stats'.failed_requests =
                   stats.failed_requests
                      + (IF call[c].pc # "done" /\ call'[c].pc = "done" THEN 1 ELSE 0)
             /\ call'[c].pc = "done" =>
                   /\ call'[c].result = Exhausted
                   /\ call'[c].slept = call'[c].max_retries
      ]_vars

\* A call of MaxRetries iterations on a provider of two unavailable keys,
\* the key cursor not on the first of them, has paused MaxRetries times and
\* returned all_providers_exhausted.
C28_Witness ==
    /\ NothingSelectable("c1")
    /\ call["c1"].pc = "done"
    /\ call["c1"].max_retries = MaxRetries
    /\ call["c1"].slept = MaxRetries
    /\ \E p \in 1..Len(providers) :
          /\ Len(providers[p].api_keys) = 2
          /\ providers[p].current_key_index # 0


\* The generate calls that have begun and have not yet returned.
InProgress ==
    {c \in Callers : call[c].pc \in {"loop", "selected", "awaiting", "sleeping"}}

RECURSIVE SumUsage(_, _)
SumUsage(usage, names) ==
    IF names = {} THEN 0
    ELSE LET n == CHOOSE x \in names : TRUE
         IN usage[n] + SumUsage(usage, names \ {n})

\* C29: in every state of a freshly started rotator, with concurrent callers,
\* total_requests = successful_requests + failed_requests + the number of
\* generate calls in progress, and the per-provider usage counters add up to
\* successful_requests.
C29_RequestAccounting ==
    /\ stats.total_requests =
          stats.successful_requests + stats.failed_requests + Cardinality(InProgress)
    /\ SumUsage(stats.provider_usage, NameSet) = stats.successful_requests

\* With two concurrent callers: one call has returned a success and is
\* counted, the other has its adapter request outstanding.
C29_Witness ==
    /\ stats.total_requests = 2
    /\ stats.successful_requests = 1
    /\ Cardinality(InProgress) = 1
    /\ call["c1"].pc = "done"
    /\ call["c2"].pc = "awaiting"

\* C30: in generate, the get_next_available_key that follows a
\* get_next_provider that returned a provider returns a key, for one caller
\* and for concurrent callers: the iteration never goes back to the loop
\* from the key fetch.
C30_KeyAfterSelection ==
    [][\A c \in Callers :
          call[c].pc = "selected" /\ call'[c].pc # "selected" =>
             /\ call'[c].pc = "awaiting"
             /\ last'.op = "get_next_available_key"
             /\ last'.returned = <<<<call[c].provider, call'[c].key>>>>
      ]_vars

\* A caller's key fetch that passed over an unavailable key and returned the
\* other while the other caller's request was outstanding.
C30_Witness ==
    /\ last.op = "get_next_available_key"
    /\ last.caller = "c2"
    /\ call["c2"].pc = "awaiting"
    /\ call["c1"].pc = "awaiting"
    /\ Len(last.checked) >= 2
    /\ last.returned # <<>>

====
